---- MODULE Spec2Model ----
(***************************************************************************)
(* Model of py_speed.py: a single run of main(), one action per statement. *)
(* The module constants NUMBER_OF_KEYS and RANGE are drawn from small sets *)
(* in Init so that the properties are checked for every N and RANGE in the *)
(* bounds; time.time() and random.randint() are nondeterministic inputs.   *)
(***************************************************************************)
EXTENDS Integers, Sequences, FiniteSets

\* ---------------------------------------------------------------- bounds
MaxN == 3              \* NUMBER_OF_KEYS ranges over 0..MaxN
MaxRange == 3          \* RANGE ranges over 0..MaxRange
MaxClock == 2          \* time.time() returns a reading in 0..MaxClock
TicksPerDigit == 2     \* clock ticks per unit of the last digit kept by :.4f

VARIABLES
    N,            \* NUMBER_OF_KEYS
    RANGE,        \* RANGE
    pc,           \* the statement of main() to execute next
    out,          \* lines written to standard output so far
    start,        \* clock reading before generation
    keys,         \* list keys (Python index j is TLA+ index j+1)
    values,       \* list values, grown by the comprehension
    dictionary,   \* the dict, a function from keys to values
    start_time,   \* clock reading before the insertion loop
    loop_iter,    \* the iterable of the for loop
    it,           \* number of loop iterations completed
    i,            \* the loop variable
    end_time,     \* clock reading after the insertion loop
    time_spent,   \* end_time - start_time
    total,        \* time.time() - start of the last print
    exit_code     \* process exit status once the run is over

vars == <<N, RANGE, pc, out, start, keys, values, dictionary, start_time,
          loop_iter, it, i, end_time, time_spent, total, exit_code>>

None == -1             \* a name not bound yet
Unset == 0 - 100       \* a duration not computed yet (durations may be < 0)

\* ------------------------------------------------------- library functions

\* range(n): 0, 1, ..., n-1
Range(n) == [j \in 1..n |-> j - 1]

\* random.randint(a, b) raises ValueError on an empty range
RandintRaisesStrict(a, b) == a >= b
RandintRaises(a, b) == a > b

\* random.randint(a, b): N such that a <= N <= b, both ends included
RandintWide(a, b) == a..(b + 1)
Randint(a, b) == a..b

\* time.time(): the system clock; a later call may return a lower value
\* than an earlier one when the clock is set back between the calls
Time == 0..MaxClock

\* d[k] = v on a dict
DictSetByPosition(d, k, v) ==
    [x \in DOMAIN d \cup {Cardinality(DOMAIN d)} |->
        IF x = Cardinality(DOMAIN d) THEN v ELSE d[x]]
DictSet(d, k, v) == [x \in DOMAIN d \cup {k} |-> IF x = k THEN v ELSE d[x]]

\* {} : the empty dict
StaleDict == [x \in {0} |-> 0]
EmptyDict == <<>>

\* len(d) of a dict
DictLen(d) == Cardinality(DOMAIN d)

\* n / unit rounded to the nearest integer, ties to even
RoundHalfEven(n, unit) ==
    LET q == n \div unit
        r == n % unit
    IN  IF 2 * r < unit THEN q
        ELSE IF 2 * r > unit THEN q + 1
        ELSE IF q % 2 = 0 THEN q ELSE q + 1

\* format(x, ".4f") of a duration of x clock ticks, in units of the last
\* digit printed
Fmt4(x) == RoundHalfEven(x, TicksPerDigit)

RECURSIVE ScalePow(_)
ScalePow(n) == IF n < 1000 THEN 1 ELSE 10 * ScalePow(n \div 10)

\* format(n, ".2e") of a non-negative int: n rounded to 3 significant digits
FmtSci2(n) == RoundHalfEven(n, ScalePow(n)) * ScalePow(n)

\* print(): one more line on standard output
WriteLine(o, kind, val) == Append(o, [kind |-> kind, val |-> val])

\* ----------------------------------------------------------------- Init

Init ==
    /\ N \in 0..MaxN
    /\ RANGE \in 0..MaxRange
    /\ pc = "print_intro"
    /\ out = <<>>
    /\ start = None
    /\ keys = <<>>
    /\ values = <<>>
    /\ dictionary = <<>>
    /\ start_time = None
    /\ loop_iter = <<>>
    /\ it = 0
    /\ i = None
    /\ end_time = None
    /\ time_spent = Unset
    /\ total = Unset
    /\ exit_code = None

\* -------------------------------------------------------------- actions

\* line 8
PrintIntro ==
    /\ pc = "print_intro"
    /\ out' = WriteLine(out, "keys", FmtSci2(N))
    /\ pc' = "read_start"
    /\ UNCHANGED <<N, RANGE, start, keys, values, dictionary, start_time,
                   loop_iter, it, i, end_time, time_spent, total, exit_code>>

\* line 11
ReadStart ==
    /\ pc = "read_start"
    /\ \E t \in Time : start' = t
    /\ pc' = "gen_keys"
    /\ UNCHANGED <<N, RANGE, out, keys, values, dictionary, start_time,
                   loop_iter, it, i, end_time, time_spent, total, exit_code>>

\* line 12
GenKeys ==
    /\ pc = "gen_keys"
    /\ keys' = Range(N)
    /\ pc' = "gen_values"
    /\ UNCHANGED <<N, RANGE, out, start, values, dictionary, start_time,
                   loop_iter, it, i, end_time, time_spent, total, exit_code>>

\* line 13, one iteration of the comprehension
GenValue ==
    /\ pc = "gen_values"
    /\ Len(values) < N
    /\ ~RandintRaises(1, RANGE - 1)
    /\ \E v \in Randint(1, RANGE - 1) : values' = Append(values, v)
    /\ UNCHANGED <<N, RANGE, pc, out, start, keys, dictionary, start_time,
                   loop_iter, it, i, end_time, time_spent, total, exit_code>>

\* line 13, randint raises: the exception is not caught, the run ends
RandintErrorEager ==
    /\ pc = "gen_values"
    /\ RandintRaises(1, RANGE - 1)
    /\ pc' = "error"
    /\ exit_code' = 1
    /\ UNCHANGED <<N, RANGE, out, start, keys, values, dictionary, start_time,
                   loop_iter, it, i, end_time, time_spent, total>>
RandintError ==
    /\ pc = "gen_values"
    /\ Len(values) < N
    /\ RandintRaises(1, RANGE - 1)
    /\ pc' = "error"
    /\ exit_code' = 1
    /\ UNCHANGED <<N, RANGE, out, start, keys, values, dictionary, start_time,
                   loop_iter, it, i, end_time, time_spent, total>>

\* line 16, reached when the comprehension has run N times
CreateDictStale ==
    /\ pc = "gen_values"
    /\ Len(values) = N
    /\ dictionary' = StaleDict
    /\ pc' = "read_start_time"
    /\ UNCHANGED <<N, RANGE, out, start, keys, values, start_time,
                   loop_iter, it, i, end_time, time_spent, total, exit_code>>
CreateDict ==
    /\ pc = "gen_values"
    /\ Len(values) = N
    /\ dictionary' = EmptyDict
    /\ pc' = "read_start_time"
    /\ UNCHANGED <<N, RANGE, out, start, keys, values, start_time,
                   loop_iter, it, i, end_time, time_spent, total, exit_code>>

\* line 19
ReadStartTime ==
    /\ pc = "read_start_time"
    /\ \E t \in Time : start_time' = t
    /\ pc' = "enter_loop"
    /\ UNCHANGED <<N, RANGE, out, start, keys, values, dictionary,
                   loop_iter, it, i, end_time, time_spent, total, exit_code>>

\* line 22, range(NUMBER_OF_KEYS) is evaluated once
EnterLoopReversed ==
    /\ pc = "enter_loop"
    /\ loop_iter' = [j \in 1..N |-> N - j]
    /\ it' = 0
    /\ pc' = "insert"
    /\ UNCHANGED <<N, RANGE, out, start, keys, values, dictionary, start_time,
                   i, end_time, time_spent, total, exit_code>>
EnterLoop ==
    /\ pc = "enter_loop"
    /\ loop_iter' = Range(N)
    /\ it' = 0
    /\ pc' = "insert"
    /\ UNCHANGED <<N, RANGE, out, start, keys, values, dictionary, start_time,
                   i, end_time, time_spent, total, exit_code>>

\* lines 22-23, one iteration
InsertStuck ==
    /\ pc = "insert"
    /\ it < Len(loop_iter)
    /\ i' = loop_iter[it + 1]
    /\ dictionary' = DictSet(dictionary, keys[i' + 1], values[i' + 1])
    /\ UNCHANGED <<N, RANGE, pc, out, start, keys, values, start_time,
                   loop_iter, it, end_time, time_spent, total, exit_code>>
Insert ==
    /\ pc = "insert"
    /\ it < Len(loop_iter)
    /\ i' = loop_iter[it + 1]
    /\ dictionary' = DictSet(dictionary, keys[i' + 1], values[i' + 1])
    /\ it' = it + 1
    /\ UNCHANGED <<N, RANGE, pc, out, start, keys, values, start_time,
                   loop_iter, end_time, time_spent, total, exit_code>>

\* line 26, reached when the iterable is exhausted
ReadEndTimeEarly ==
    /\ pc = "insert"
    /\ it + 1 >= Len(loop_iter)
    /\ \E t \in Time : end_time' = t
    /\ pc' = "print_time_spent"
    /\ UNCHANGED <<N, RANGE, out, start, keys, values, dictionary, start_time,
                   loop_iter, it, i, time_spent, total, exit_code>>
ReadEndTime ==
    /\ pc = "insert"
    /\ it = Len(loop_iter)
    /\ \E t \in Time : end_time' = t
    /\ pc' = "print_time_spent"
    /\ UNCHANGED <<N, RANGE, out, start, keys, values, dictionary, start_time,
                   loop_iter, it, i, time_spent, total, exit_code>>

\* lines 29-30
PrintTimeSpent ==
    /\ pc = "print_time_spent"
    /\ time_spent' = end_time - start_time
    /\ out' = WriteLine(out, "insert_elapsed", Fmt4(time_spent'))
    /\ pc' = "print_size"
    /\ UNCHANGED <<N, RANGE, start, keys, values, dictionary, start_time,
                   loop_iter, it, i, end_time, total, exit_code>>

\* line 33
PrintSizeSkipped ==
    /\ pc = "print_size"
    /\ pc' = "print_total"
    /\ UNCHANGED <<N, RANGE, out, start, keys, values, dictionary, start_time,
                   loop_iter, it, i, end_time, time_spent, total, exit_code>>
PrintSize ==
    /\ pc = "print_size"
    /\ out' = WriteLine(out, "size", DictLen(dictionary))
    /\ pc' = "print_total"
    /\ UNCHANGED <<N, RANGE, start, keys, values, dictionary, start_time,
                   loop_iter, it, i, end_time, time_spent, total, exit_code>>

\* line 35, then main() returns and the interpreter exits with status 0
PrintTotal ==
    /\ pc = "print_total"
    /\ \E t \in Time : total' = t - start
    /\ out' = WriteLine(out, "total_elapsed", Fmt4(total'))
    /\ pc' = "done"
    /\ exit_code' = 0
    /\ UNCHANGED <<N, RANGE, start, keys, values, dictionary, start_time,
                   loop_iter, it, i, end_time, time_spent>>

Next ==
    \/ PrintIntro
    \/ ReadStart
    \/ GenKeys
    \/ GenValue
    \/ RandintError
    \/ CreateDict
    \/ ReadStartTime
    \/ EnterLoop
    \/ Insert
    \/ ReadEndTime
    \/ PrintTimeSpent
    \/ PrintSize
    \/ PrintTotal

Spec == Init /\ [][Next]_vars

\* The run is single-threaded and synchronous: a statement that can execute
\* does execute.
FairSpec == Spec /\ WF_vars(Next)

\* ------------------------------------- insertion in an arbitrary order

\* the orders in which the n indices 0..n-1 can be visited
Perms(n) ==
    {s \in [1..n -> 0..(n - 1)] :
        \A a, b \in 1..n : a # b => s[a] # s[b]}

\* the insertion loop run to completion over the indices in order
RECURSIVE InsertInOrder(_, _, _, _)
InsertInOrder(d, ks, vs, order) ==
    IF order = <<>> THEN d
    ELSE InsertInOrder(DictSet(d, ks[Head(order) + 1], vs[Head(order) + 1]),
                       ks, vs, Tail(order))

\* The state at the head of the insertion loop, for generated keys and
\* values, with the indices visited in an arbitrary order.
InitPerm ==
    /\ N \in 0..MaxN
    /\ RANGE \in 2..MaxRange
    /\ pc = "insert"
    /\ out = WriteLine(<<>>, "keys", FmtSci2(N))
    /\ start \in Time
    /\ keys = Range(N)
    /\ values \in [1..N -> Randint(1, RANGE - 1)]
    /\ dictionary = EmptyDict
    /\ start_time \in Time
    /\ loop_iter \in Perms(N)
    /\ it = 0
    /\ i = None
    /\ end_time = None
    /\ time_spent = Unset
    /\ total = Unset
    /\ exit_code = None

NextPerm ==
    \/ Insert
    \/ ReadEndTime

SpecPerm == InitPerm /\ [][NextPerm]_vars

\* ------------------------------------------------------------ properties

InsertDone == pc \in {"print_time_spent", "print_size", "print_total", "done"}
GenDone == pc \in {"read_start_time", "enter_loop", "insert"} \/ InsertDone
ReportedKinds == [j \in 1..Len(out) |-> out[j].kind]

\* C1: when the insertion loop has completed the dictionary holds exactly
\* the N supplied pairs: its key set is 0..N-1 and dictionary[keys[j]] is
\* values[j] for every j, with no other entry.
C1_ExactlyTheSuppliedPairs ==
    InsertDone =>
        /\ DOMAIN dictionary = 0..(N - 1)
        /\ Len(keys) = N
        /\ Len(values) = N
        /\ \A j \in 0..(N - 1) :
              /\ keys[j + 1] = j
              /\ dictionary[keys[j + 1]] = values[j + 1]

C1_Witness ==
    /\ pc = "print_time_spent"
    /\ N >= 2
    /\ dictionary[0] # dictionary[1]

\* C2: once the insertion loop has finished len(dictionary) is N, whatever
\* values were drawn, and that is the number printed as the dictionary size.
C2_SizeIsN ==
    /\ InsertDone => DictLen(dictionary) = N
    /\ pc \in {"print_total", "done"} =>
          /\ out[3].kind = "size"
          /\ out[3].val = N

C2_Witness ==
    /\ pc = "done"
    /\ N >= 2
    /\ out[3].val = N

\* C3 as stated: every stored value v satisfies 1 <= v and v < RANGE - 1.
C3_ValuesBelowUpperEnd ==
    InsertDone =>
        \A k \in DOMAIN dictionary :
            1 <= dictionary[k] /\ dictionary[k] < RANGE - 1

\* C3 as amended: every stored value v satisfies 1 <= v and v <= RANGE - 1
\* (randint includes both ends).
C3_ValuesInClosedRange ==
    InsertDone =>
        \A k \in DOMAIN dictionary :
            1 <= dictionary[k] /\ dictionary[k] <= RANGE - 1

C3_Witness ==
    /\ pc = "done"
    /\ \E k \in DOMAIN dictionary : dictionary[k] = RANGE - 1
    /\ \E k \in DOMAIN dictionary : dictionary[k] = 1

\* C4: in a completed run the insertion elapsed time end_time - start_time
\* is non-negative and at most the total elapsed time.
C4_ElapsedOrdered ==
    pc = "done" =>
        /\ time_spent = end_time - start_time
        /\ time_spent >= 0
        /\ time_spent <= total

\* C5 as stated: a completed run has written exactly three lines, reporting
\* key count, insertion elapsed time, map size and total elapsed time.
C5_ThreeLines ==
    pc = "done" =>
        /\ Len(out) = 3
        /\ ReportedKinds =
              <<"keys", "insert_elapsed", "size", "total_elapsed">>

\* C5 as amended: a completed run has written exactly four lines, reporting
\* in this order the key count, the insertion elapsed time, the map size
\* and the total elapsed time.
C5_FourLines ==
    pc = "done" =>
        /\ Len(out) = 4
        /\ ReportedKinds =
              <<"keys", "insert_elapsed", "size", "total_elapsed">>
        /\ out[1].val = FmtSci2(N)
        /\ out[2].val = Fmt4(end_time - start_time)
        /\ out[3].val = DictLen(dictionary)
        /\ out[4].val = Fmt4(total)
        /\ \E t \in Time : total = t - start

C5_Witness ==
    /\ pc = "done"
    /\ N >= 1
    /\ out[2].val # out[4].val

\* C6: with N = 0 the run raises no error for any RANGE: no value is
\* generated, the loop body never runs, the dictionary is empty at the end,
\* and the run completes.
C6_ZeroKeysNoError ==
    /\ [](N = 0 =>
            /\ pc # "error"
            /\ values = <<>>
            /\ it = 0
            /\ i = None
            /\ (InsertDone => dictionary = EmptyDict /\ DictLen(dictionary) = 0)
            /\ (pc = "done" => exit_code = 0))
    /\ ((N = 0) ~> (pc = "done"))

C6_Witness ==
    /\ pc = "done"
    /\ N = 0
    /\ RANGE <= 1

\* C7 as stated: the generation step never ends in an error, for every N
\* and every RANGE.
C7_GenerationNeverFails == pc # "error"

\* C7 as amended: for every N >= 0 and every RANGE with RANGE >= 2 or N = 0
\* the generation step raises no error and yields N keys and N values, and
\* the dictionary is then created and the insertion loop is reached.
C7_GenerationCompletes ==
    /\ [](RANGE >= 2 \/ N = 0 =>
            /\ pc # "error"
            /\ (GenDone => keys = Range(N) /\ Len(values) = N))
    /\ (RANGE >= 2 \/ N = 0 =>
            <>(pc = "insert" /\ it = 0 /\ dictionary = EmptyDict))

C7_Witness ==
    /\ pc = "insert"
    /\ it = 0
    /\ N >= 2
    /\ RANGE = 2

\* C8: inserting the pairs one at a time in any order of the indices gives
\* the same mapping as inserting them in key order.
C8_OrderIndependent ==
    pc = "print_time_spent" =>
        dictionary = InsertInOrder(EmptyDict, keys, values, Range(N))

C8_Witness ==
    /\ pc = "print_time_spent"
    /\ N >= 3
    /\ loop_iter # Range(N)
    /\ loop_iter[1] # 0
    /\ dictionary[0] # dictionary[1]

\* C9: for every N >= 0 and RANGE >= 2 the run eventually terminates with
\* exit code 0, after exactly N iterations of the generation step and of
\* the insertion loop, every print statement having been reached.
C9_Terminates ==
    (RANGE >= 2) ~>
        /\ pc = "done"
        /\ exit_code = 0
        /\ Len(values) = N
        /\ it = N
        /\ Len(out) = 4

C9_Witness ==
    /\ pc = "done"
    /\ exit_code = 0
    /\ RANGE >= 2
    /\ N >= 2
    /\ it = N

\* The loop starts from an empty dictionary and inserts one pair per
\* iteration in increasing key order: after it iterations the dictionary
\* holds exactly the keys 0..it-1, each mapped to values[key]; an iteration
\* adds a new key, overwrites nothing and leaves keys and values alone.
C10_LoopState ==
    pc = "insert" =>
        /\ it \in 0..N
        /\ DOMAIN dictionary = 0..(it - 1)
        /\ DictLen(dictionary) = it
        /\ \A k \in DOMAIN dictionary : dictionary[k] = values[k + 1]

C10_LoopStep ==
    pc = "insert" /\ pc' = "insert" /\ it' # it =>
        /\ it' = it + 1
        /\ i' = it
        /\ keys[i' + 1] \notin DOMAIN dictionary
        /\ DOMAIN dictionary' = DOMAIN dictionary \cup {keys[i' + 1]}
        /\ \A k \in DOMAIN dictionary : dictionary'[k] = dictionary[k]
        /\ DictLen(dictionary') = DictLen(dictionary) + 1
        /\ keys' = keys
        /\ values' = values

\* C10: in every state at the head of the insertion loop the dictionary
\* holds exactly the pairs of the keys 0..it-1, and every iteration adds
\* the next key in increasing order without overwriting an entry or
\* modifying keys or values.
C10_LoopInvariant == [](C10_LoopState) /\ [][C10_LoopStep]_vars

C10_Witness ==
    /\ pc = "insert"
    /\ it = 2
    /\ N >= 3
    /\ dictionary[0] # dictionary[1]

====
